---- MODULE Spec2Model ----
(***************************************************************************)
(* The postfix interpreter of src/postfix.cpp as a state machine.          *)
(*                                                                         *)
(* One run of main() is a configuration record (Cfg): the program's view   *)
(* of wcin (position and state bits), the locals of next_tok, the two      *)
(* globals EndOfInput / IsOperator, the memory stack, the output streams,  *)
(* and the exception that reached main's handlers.  The characters typed   *)
(* on standard input are the environment (variable wcin): they are chosen  *)
(* when the program asks for a character that was not delivered before.    *)
(*                                                                         *)
(* A double is modelled by its sign, significand and exponent, and the     *)
(* arithmetic rounds to nearest, ties to even, as IEEE 754 binary64 does,  *)
(* subnormal values, infinities and NaN included.                          *)
(***************************************************************************)
EXTENDS Integers, Sequences, FiniteSets, TLC

\* ------------------------------------------------------------------ bounds
\* longest input (in characters) the environment types
MaxLen == 6

\* --------------------------------------------------------------- characters
EOI == ";"
ZERO == "0"
MINUS == "-"
PLUS == "+"
MULT == "*"
DIV == "/"
RADIX_POINT == "."
\* the initial value of next_tok's local c
NUL == "NUL"

\* isdigit(c, loc) and isspace(c, loc), on the characters the model types
Digits == {"0", "1"}
Spaces == {" "}
IsDigit(ch) == ch \in Digits
IsSpace(ch) == ch \in Spaces
\* characters that fall through to "invalid expression"
Others == {"@"}
Alphabet == Digits \cup Spaces \cup Others \cup {EOI, MINUS, PLUS, MULT, DIV, RADIX_POINT}

DigitVal(ch) == IF ch = "1" THEN 1 ELSE 0

\* wstring(1, c)
Str1(ch) == <<ch>>

\* ------------------------------------------------------------------ doubles
\* A double is [neg, man, exp]: the value (-1)^neg * man * 2^exp, man an odd
\* natural number below 2^Precision, or 0 with exp 0 for the two zeros.  The
\* inputs the model types keep the exponent far inside the range of a
\* double, so infinities, NaN and subnormal numbers do not arise.

\* bits of the significand of a double
Precision == 53

\* ---- natural numbers of any size, as limbs to the base 2^15, lowest first
Base == 2^15

Min(a, b) == IF a < b THEN a ELSE b
Max(a, b) == IF a > b THEN a ELSE b
\* the least and the greatest of a set of integers that is not empty
SetMin(S) == CHOOSE i \in S : \A j \in S : i <= j
SetMax(S) == CHOOSE i \in S : \A j \in S : i >= j

\* x without the zero limbs at its top
Trim(x) ==
    LET nz == {i \in 1..Len(x) : x[i] # 0}
    IN  IF nz = {} THEN <<>> ELSE SubSeq(x, 1, SetMax(nz))

RECURSIVE NatOf(_)
NatOf(n) == IF n = 0 THEN <<>> ELSE <<n % Base>> \o NatOf(n \div Base)

Limb(x, i) == IF i >= 1 /\ i <= Len(x) THEN x[i] ELSE 0

\* -1, 0 or 1 as x is below, equal to or above y
NCmp(x, y) ==
    LET d == {i \in 1..Min(Len(x), Len(y)) : x[i] # y[i]}
    IN  IF Len(x) < Len(y) THEN -1
        ELSE IF Len(x) > Len(y) THEN 1
        ELSE IF d = {} THEN 0
        ELSE IF x[SetMax(d)] < y[SetMax(d)] THEN -1
        ELSE 1

\* the addition carries into limb i: a limb below overflows, and every
\* limb between is full
Carry(x, y, i) ==
    \E j \in 1..(i - 1) :
        /\ Limb(x, j) + Limb(y, j) >= Base
        /\ \A k \in (j + 1)..(i - 1) : Limb(x, k) + Limb(y, k) = Base - 1

NAdd(x, y) ==
    Trim([i \in 1..(Max(Len(x), Len(y)) + 1) |->
             (Limb(x, i) + Limb(y, i) + (IF Carry(x, y, i) THEN 1 ELSE 0)) % Base])

\* the subtraction borrows from limb i: a limb below falls short, and
\* every limb between is level
Borrow(x, y, i) ==
    \E j \in 1..(i - 1) :
        /\ Limb(x, j) < Limb(y, j)
        /\ \A k \in (j + 1)..(i - 1) : Limb(x, k) = Limb(y, k)

\* x - y, for x >= y
NSub(x, y) ==
    Trim([i \in 1..Len(x) |->
             (x[i] - Limb(y, i) - (IF Borrow(x, y, i) THEN 1 ELSE 0) + Base) % Base])

\* x * k, for 0 <= k < Base: the low halves of the limb products, and the
\* high halves one limb up
NMulSmall(x, k) ==
    IF k = 0 \/ x = <<>> THEN <<>>
    ELSE NAdd([i \in 1..Len(x) |-> (x[i] * k) % Base],
              <<0>> \o [i \in 1..Len(x) |-> (x[i] * k) \div Base])

\* x * Base^k
NUp(x, k) == IF x = <<>> THEN <<>> ELSE [i \in 1..k |-> 0] \o x

\* x * y, the limbs of y taken half by half
RECURSIVE NMul(_, _)
NMul(x, y) ==
    IF x = <<>> \/ y = <<>> THEN <<>>
    ELSE IF Len(y) = 1 THEN NMulSmall(x, y[1])
    ELSE NAdd(NMul(x, SubSeq(y, 1, Len(y) \div 2)),
              NUp(NMul(x, SubSeq(y, Len(y) \div 2 + 1, Len(y))), Len(y) \div 2))

RECURSIVE IntBits(_)
IntBits(n) == IF n = 0 THEN 0 ELSE 1 + IntBits(n \div 2)

\* the number of bits of x
NBits(x) == IF x = <<>> THEN 0 ELSE 15 * (Len(x) - 1) + IntBits(x[Len(x)])

\* bit k of x, bit 0 the lowest
NBit(x, k) == (Limb(x, k \div 15 + 1) \div 2^(k % 15)) % 2

\* x * 2^k
NShl(x, k) == NUp(NMulSmall(x, 2^(k % 15)), k \div 15)

\* x \div 2^k
NShr(x, k) ==
    LET y    == IF k \div 15 >= Len(x) THEN <<>>
                ELSE SubSeq(x, k \div 15 + 1, Len(x))
        bits == k % 15
    IN  Trim([i \in 1..Len(y) |->
                 (y[i] \div 2^bits) + (Limb(y, i + 1) % 2^bits) * 2^(15 - bits)])

\* the k lowest bits of x are 0
NLowZero(x, k) ==
    /\ \A i \in 1..Min(Len(x), k \div 15) : x[i] = 0
    /\ Limb(x, k \div 15 + 1) % 2^(k % 15) = 0

RECURSIVE IntTz(_)
IntTz(n) == IF n % 2 = 1 THEN 0 ELSE 1 + IntTz(n \div 2)

\* the number of 0 bits below the lowest 1 bit of x, x not 0
NTz(x) ==
    LET low == SetMin({i \in 1..Len(x) : x[i] # 0})
    IN  15 * (low - 1) + IntTz(x[low])

\* the limb of the quotient: the largest q, from the estimate down, with
\* b * q <= r
RECURSIVE QuotLimb(_, _, _)
QuotLimb(r, b, q) ==
    IF NCmp(NMulSmall(b, q), r) > 0 THEN QuotLimb(r, b, q - 1) ELSE q

\* the limb d of a quotient and what it leaves of a
Leaves(a, b, d) == [q |-> <<d>>, r |-> NSub(a, NMulSmall(b, d))]

\* a \div b and the remainder for a below b * Base, the top limb of b at
\* least Base \div 2
DivLimb(a, b) ==
    Leaves(a, b, QuotLimb(a, b, Min(Base - 1,
               (Limb(a, Len(b) + 1) * Base + Limb(a, Len(b))) \div b[Len(b)])))

\* long division, a below b * Base^n: the n limbs of the quotient, the
\* upper ones first and the lower ones from what that leaves, and the
\* remainder
RECURSIVE DivFrom(_, _, _)
DivFrom(a, b, n) ==
    IF n = 1 THEN DivLimb(a, b)
    ELSE LET h  == n \div 2
             up == DivFrom(IF Len(a) > h THEN SubSeq(a, h + 1, Len(a)) ELSE <<>>,
                           b, n - h)
             lo == DivFrom(Trim([i \in 1..h |-> Limb(a, i)] \o up.r), b, h)
         IN  [q |-> lo.q \o up.q, r |-> lo.r]

\* a \div b, with zero limbs at its top, and the remainder, the top limb
\* of b at least Base \div 2
DivAll(a, b) == DivFrom(a, b, Max(1, Len(a) - Len(b) + 1))

\* a \div b, with zero limbs at its top, and a remainder that is 0 only
\* when a is a multiple of b, b not 0: both are scaled to bring the top
\* limb of b to Base \div 2 or more
NDiv(a, b) ==
    DivAll(NMulSmall(a, Base \div (b[Len(b)] + 1)),
           NMulSmall(b, Base \div (b[Len(b)] + 1)))

\* ---- the values
Zero == [neg |-> FALSE, man |-> <<>>, exp |-> 0]
NegZero == [neg |-> TRUE, man |-> <<>>, exp |-> 0]
\* n2 == 0.0 (true of both zeros)
IsZero(v) == v.man = <<>>
SignBit(v) == v.neg

\* the exponent past the largest double: 2^MaxExp stands for infinity, and
\* 3 * 2^MaxExp for the NaN that an invalid operation delivers
MaxExp == 1024
\* the exponent of the smallest double, 2^MinExp: every double is a
\* multiple of it
MinExp == -1074
Inf(neg) == [neg |-> neg, man |-> <<1>>, exp |-> MaxExp]
NaN == [neg |-> TRUE, man |-> <<3>>, exp |-> MaxExp]
IsInf(v) == v.man = <<1>> /\ v.exp = MaxExp
IsNaN(v) == v.man = <<3>> /\ v.exp = MaxExp

\* the double m * 2^e, m not 0 with tz zero bits at its low end
Norm(neg, m, e, tz) == [neg |-> neg, man |-> NShr(m, tz), exp |-> e + tz]

\* the double of the value m * 2^e, for m of Precision bits at most and e
\* at least MinExp (Round sees to both): an infinity from 2^MaxExp on
Pack(neg, m, e) ==
    IF m = <<>> THEN (IF neg THEN NegZero ELSE Zero)
    ELSE IF NBits(m) + e > MaxExp THEN Inf(neg)
    ELSE Norm(neg, m, e, NTz(m))

\* ties to even: kept goes up by one when the bits cut off are more than
\* half a unit (half and rest), or half a unit and kept is odd
Nudge(kept, half, rest) ==
    IF half /\ (rest \/ Limb(kept, 1) % 2 = 1) THEN NAdd(kept, <<1>>) ELSE kept

\* m * 2^e, or a value between that and (m + 1) * 2^e when sticky, with
\* the sh lowest bits of m rounded away
Cut(neg, m, e, sticky, sh) ==
    Pack(neg,
         Nudge(NShr(m, sh),
               sh > 0 /\ NBit(m, sh - 1) = 1,
               sticky \/ (sh > 1 /\ ~NLowZero(m, sh - 1))),
         e + sh)

\* round to nearest, ties to even: the double nearest to m * 2^e, or to a
\* value between that and (m + 1) * 2^e when sticky (m then has bits to
\* spare).  The value is cut to Precision bits, and at 2^MinExp where
\* that leaves fewer of them (the subnormal doubles, and 0 below them);
\* from 2^MaxExp on it is an infinity.
Round(neg, m, e, sticky) ==
    Cut(neg, m, e, sticky, Max(0, Max(NBits(m) - Precision, MinExp - e)))

\* the double of the value m * 2^e
Exact(neg, m, e) == Round(neg, m, e, FALSE)

\* the largest double
MaxDouble(neg) == Exact(neg, NSub(NShl(<<1>>, Precision), <<1>>), MaxExp - Precision)

\* the quotient d.q times 2^e rounded, sticky when the division or the
\* scaling before it left something over
RoundDiv(neg, d, e, cut) == Round(neg, Trim(d.q), e, cut \/ d.r # <<>>)

\* a / b of two natural numbers not 0, times 2^e, rounded once: a is
\* scaled to give a quotient of Precision + 2 bits or one more
RoundQuot(neg, a, b, e) ==
    LET k == Precision + 2 + NBits(b) - NBits(a)
    IN  RoundDiv(neg, NDiv(IF k >= 0 THEN NShl(a, k) ELSE NShr(a, -k), b),
                 e - k, k < 0 /\ ~NLowZero(a, -k))

Abs(x) == IF x < 0 THEN -x ELSE x

\* the conversion inside ss >> n: the double nearest to the numeral of the
\* value n / d (natural numbers as limbs, d not 0) with the sign neg,
\* subnormal or 0 where it is that small, an infinity where it is beyond
\* the doubles
Nearest(neg, n, d) ==
    IF n = <<>> THEN (IF neg THEN NegZero ELSE Zero)
    ELSE RoundQuot(neg, n, d, 0)

\* what ss >> n stores and the bits it sets, v being the value converted:
\* 0 and failbit without a digit, the largest double and failbit where v
\* is beyond the doubles
Stored(v, bad, eof) ==
    [n    |-> IF bad THEN Zero ELSE IF IsInf(v) THEN MaxDouble(v.neg) ELSE v,
     fail |-> bad \/ IsInf(v),
     eof  |-> eof]

\* b is below a quarter of the unit of a's last place
Tiny(b, a) == NBits(b.man) + b.exp <= a.exp - (Precision + 2)

\* b, or in its place when it is that small next to a the value
\* 2^(a.exp - Precision - 3): the sum with a rounds alike
Near(b, a) ==
    IF Tiny(b, a) THEN [b EXCEPT !.man = <<1>>, !.exp = a.exp - (Precision + 3)]
    ELSE b

\* the sum of the values ma * 2^e and mb * 2^e with the signs na and nb
Aligned(na, ma, nb, mb, e) ==
    IF na # nb /\ NCmp(ma, mb) = 0 THEN Zero
    ELSE Round(IF na = nb \/ NCmp(ma, mb) > 0 THEN na ELSE nb,
               IF na = nb THEN NAdd(ma, mb)
               ELSE IF NCmp(ma, mb) > 0 THEN NSub(ma, mb)
               ELSE NSub(mb, ma),
               e, FALSE)

\* a + b, neither of them zero, infinite or NaN
Sum(a, b) ==
    Aligned(a.neg, NShl(a.man, a.exp - Min(a.exp, b.exp)),
            b.neg, NShl(b.man, b.exp - Min(a.exp, b.exp)),
            Min(a.exp, b.exp))

\* n1 + n2 (line 212): a zero sum of zeros is -0 only when both are -0, a
\* zero sum of other values is +0
DAdd(a, b) ==
    IF IsNaN(a) \/ IsNaN(b) THEN NaN
    ELSE IF IsInf(a) THEN (IF IsInf(b) /\ a.neg # b.neg THEN NaN ELSE a)
    ELSE IF IsInf(b) THEN b
    ELSE IF IsZero(a) /\ IsZero(b) THEN (IF a.neg /\ b.neg THEN NegZero ELSE Zero)
    ELSE IF IsZero(a) THEN b
    ELSE IF IsZero(b) THEN a
    ELSE Sum(Near(a, b), Near(b, a))

DNeg(a) == [a EXCEPT !.neg = ~@]
\* n1 - n2 (line 213)
DSub(a, b) == DAdd(a, DNeg(b))
\* n1 * n2 (line 214): the sign of a zero product is the xor of the signs
DMul(a, b) ==
    IF IsNaN(a) \/ IsNaN(b) THEN NaN
    ELSE IF IsInf(a) \/ IsInf(b)
         THEN (IF IsZero(a) \/ IsZero(b) THEN NaN ELSE Inf(a.neg # b.neg))
    ELSE IF IsZero(a) \/ IsZero(b) THEN (IF a.neg # b.neg THEN NegZero ELSE Zero)
    ELSE Round(a.neg # b.neg, NMul(a.man, b.man), a.exp + b.exp, FALSE)
\* n1 / n2 (line 215): a value other than zero over zero is an infinity,
\* zero over zero is NaN
DDiv(a, b) ==
    IF IsNaN(a) \/ IsNaN(b) THEN NaN
    ELSE IF IsInf(a) THEN (IF IsInf(b) THEN NaN ELSE Inf(a.neg # b.neg))
    ELSE IF IsZero(b) THEN (IF IsZero(a) THEN NaN ELSE Inf(a.neg # b.neg))
    ELSE IF IsZero(a) \/ IsInf(b) THEN (IF a.neg # b.neg THEN NegZero ELSE Zero)
    ELSE RoundQuot(a.neg # b.neg, a.man, b.man, a.exp - b.exp)

RECURSIVE Pow10(_)
Pow10(k) == IF k = 0 THEN 1 ELSE 10 * Pow10(k - 1)

\* ------------------------------------------------ ss >> n (lines 182-188)
\* number of digits of text from index i on
DigitRun(text, i) ==
    LET stop == {j \in i..(Len(text) + 1) : j > Len(text) \/ ~IsDigit(text[j])}
    IN  SetMin(stop) - i

\* 10^k as a natural number
RECURSIVE NPow10(_)
NPow10(k) ==
    IF k = 0 THEN <<1>>
    ELSE IF k % 2 = 1 THEN NMulSmall(NPow10(k - 1), 10)
    ELSE NMul(NPow10(k \div 2), NPow10(k \div 2))

\* the natural number spelled by the k digits of text from index i on
RECURSIVE DigitsValue(_, _, _)
DigitsValue(text, i, k) ==
    IF k = 0 THEN <<>>
    ELSE IF k = 1 THEN NatOf(DigitVal(text[i]))
    ELSE NAdd(NMul(DigitsValue(text, i, k \div 2), NPow10(k - k \div 2)),
              DigitsValue(text, i + k \div 2, k - k \div 2))

\* operator>>(double&): the longest prefix [sign] digits [. digits] is
\* taken from the stream and converted to the double nearest to it; eofbit
\* when the text is used up, failbit (and the value 0) when the prefix
\* holds no digit, failbit (and the largest double) when the value is
\* beyond the doubles.
Extract(text) ==
    LET signed == Len(text) >= 1 /\ text[1] \in {PLUS, MINUS}
        i0     == IF signed THEN 2 ELSE 1
        ni     == DigitRun(text, i0)
        dot    == i0 + ni <= Len(text) /\ text[i0 + ni] = RADIX_POINT
        nf     == IF dot THEN DigitRun(text, i0 + ni + 1) ELSE 0
        used   == (i0 - 1) + ni + (IF dot THEN 1 + nf ELSE 0)
        neg    == signed /\ text[1] = MINUS
        mag    == NAdd(NMul(DigitsValue(text, i0, ni), NPow10(nf)),
                       IF dot THEN DigitsValue(text, i0 + ni + 1, nf) ELSE <<>>)
        bad    == ni + nf = 0
    IN  Stored(Nearest(neg, mag, NPow10(nf)), bad, used = Len(text))

\* ------------------------------------------------------------------ state
VARIABLES
    wcin,           \* standard input: [chars, ended, broken], the environment
    pos,            \* characters of wcin consumed (net of putback)
    eofbit,         \* wcin.eof()
    failbit,        \* wcin.fail()
    badbit,         \* wcin.bad()
    str, c, got_radixpt, is_valid_num, should_cont, got_eoi,  \* next_tok locals
    EndOfInput, IsOperator,                                   \* globals
    flag_verbose, tok, mem,                                   \* main locals
    pc,             \* "loop", "read", "classify", "apply", "done", "crashed"
    thrown,         \* the exception caught by main: [kind, payload]
    wcout, wcerr,   \* what was written to the wide output streams
    cerr,           \* what was written to the narrow error stream
    result,         \* the value printed at line 237, <<>> before
    warned,         \* line 240 was executed
    raw,            \* characters next_tok took into the current lexeme
    nputback,       \* putback calls of the current next_tok call
    entry,          \* pos when the current next_tok call began
    lexemes,        \* the lexemes main has taken up, as [text, op]
    twin            \* a second run on the same input (specification SpecTwin)

progVars == <<pos, eofbit, failbit, badbit, str, c, got_radixpt, is_valid_num,
              should_cont, got_eoi, EndOfInput, IsOperator, flag_verbose, tok,
              mem, pc, thrown, wcout, wcerr, cerr, result, warned, raw, nputback,
              entry, lexemes>>
vars == <<wcin, progVars, twin>>

NoException == [kind |-> "none", payload |-> <<>>]
NoResult == <<>>

\* the run as one record
Cfg ==
    [pos |-> pos, eofbit |-> eofbit, failbit |-> failbit, badbit |-> badbit,
     str |-> str, c |-> c, got_radixpt |-> got_radixpt,
     is_valid_num |-> is_valid_num, should_cont |-> should_cont,
     got_eoi |-> got_eoi, EndOfInput |-> EndOfInput, IsOperator |-> IsOperator,
     flag_verbose |-> flag_verbose, tok |-> tok, mem |-> mem, pc |-> pc,
     thrown |-> thrown, wcout |-> wcout, wcerr |-> wcerr, cerr |-> cerr,
     result |-> result,
     warned |-> warned, raw |-> raw, nputback |-> nputback,
     entry |-> entry, lexemes |-> lexemes]

SetCfg(s) ==
    /\ pos' = s.pos /\ eofbit' = s.eofbit /\ failbit' = s.failbit
    /\ badbit' = s.badbit /\ str' = s.str /\ c' = s.c
    /\ got_radixpt' = s.got_radixpt /\ is_valid_num' = s.is_valid_num
    /\ should_cont' = s.should_cont /\ got_eoi' = s.got_eoi
    /\ EndOfInput' = s.EndOfInput /\ IsOperator' = s.IsOperator
    /\ flag_verbose' = s.flag_verbose /\ tok' = s.tok /\ mem' = s.mem
    /\ pc' = s.pc /\ thrown' = s.thrown /\ wcout' = s.wcout
    /\ wcerr' = s.wcerr /\ cerr' = s.cerr
    /\ result' = s.result /\ warned' = s.warned
    /\ raw' = s.raw /\ nputback' = s.nputback /\ entry' = s.entry
    /\ lexemes' = s.lexemes

\* the state of a run when main starts, for a given command line
Start(verbose) ==
    [pos |-> 0, eofbit |-> FALSE, failbit |-> FALSE, badbit |-> FALSE,
     str |-> <<>>, c |-> NUL, got_radixpt |-> FALSE, is_valid_num |-> FALSE,
     should_cont |-> TRUE, got_eoi |-> FALSE,
     EndOfInput |-> FALSE, IsOperator |-> FALSE,
     flag_verbose |-> verbose, tok |-> <<>>, mem |-> <<>>, pc |-> "loop",
     thrown |-> NoException, wcout |-> <<>>, wcerr |-> <<>>, cerr |-> <<>>,
     result |-> NoResult, warned |-> FALSE, raw |-> <<>>, nputback |-> 0,
     entry |-> 0, lexemes |-> <<>>]

\* ------------------------------------------------------------ the stream
\* wcin.good()
Good(s) == ~s.eofbit /\ ~s.failbit /\ ~s.badbit

\* a character is there to be read without asking the environment
HasChar(s, w) == s.pos < Len(w.chars)
\* the read can be decided: a character, the end of the stream or an error
Ready(s, w) == HasChar(s, w) \/ w.ended \/ w.broken

\* what the environment may do when the program blocks in wcin.get():
\* type one more character, close the stream, or fail the read
Feed(s, w) ==
    IF Ready(s, w) THEN {w}
    ELSE {[w EXCEPT !.chars = Append(@, ch)] : ch \in
              IF Len(w.chars) < MaxLen THEN Alphabet ELSE {}}
         \cup {[w EXCEPT !.ended = TRUE], [w EXCEPT !.broken = TRUE]}

\* is.get(c), a character being there (line 86)
Get(s, w) == [s EXCEPT !.c = w.chars[s.pos + 1], !.pos = @ + 1]

\* is.get(c) at the end of the stream or on a read error (line 86):
\* c is left alone and the loop ends
GetNothing(s, w) ==
    IF HasChar(s, w) THEN s
    ELSE IF w.broken
         THEN [s EXCEPT !.badbit = TRUE, !.failbit = TRUE, !.pc = "classify"]
         ELSE [s EXCEPT !.eofbit = TRUE, !.failbit = TRUE, !.pc = "classify"]

\* is.putback(c), right after a get (lines 95, 104, 115, 124, 131)
Putback(s) == [s EXCEPT !.pos = @ - 1, !.eofbit = FALSE, !.nputback = @ + 1]

\* str += c
Take(s) == [s EXCEPT !.str = Append(@, s.c), !.raw = Append(@, s.c)]

\* ------------------------------------------- next_tok, the switch on c
\* CaseEOI without line 90: the terminator is noted and the loop reads on
CaseEOIReadsOn(s) == [s EXCEPT !.got_eoi = TRUE]

\* case EOI (lines 88-91)
CaseEOI(s) == [s EXCEPT !.got_eoi = TRUE, !.should_cont = FALSE]

\* CaseSign without the test of line 94
CaseSignAlwaysTaken(s) == Take(s)

\* case MINUS, PLUS (lines 93-100)
CaseSign(s) ==
    IF s.str # <<>> THEN [Putback(s) EXCEPT !.should_cont = FALSE]
    ELSE Take(s)

\* CaseRadixPoint without line 108
CaseRadixPointNoZero(s) ==
    IF s.got_radixpt THEN [Putback(s) EXCEPT !.should_cont = FALSE]
    ELSE [Take(s) EXCEPT !.got_radixpt = TRUE, !.is_valid_num = FALSE]

\* CaseRadixPoint without the test of line 103: every point is appended
CaseRadixPointTakesAll(s) ==
    LET z == IF s.str = <<>> THEN [s EXCEPT !.str = Append(@, ZERO)] ELSE s
    IN  [Take(z) EXCEPT !.got_radixpt = TRUE, !.is_valid_num = FALSE]

\* case RADIX_POINT (lines 102-112)
CaseRadixPoint(s) ==
    IF s.got_radixpt THEN [Putback(s) EXCEPT !.should_cont = FALSE]
    ELSE LET z == IF s.str = <<>> THEN [s EXCEPT !.str = Append(@, ZERO)] ELSE s
         IN  [Take(z) EXCEPT !.got_radixpt = TRUE, !.is_valid_num = FALSE]

\* CaseMultDiv without the test of line 114: the character is appended to
\* whatever the lexeme holds
CaseMultDivAppends(s) == [Take(s) EXCEPT !.should_cont = FALSE]

\* case MULT, DIV (lines 114-118)
CaseMultDiv(s) ==
    [(IF s.str # <<>> THEN Putback(s) ELSE Take(s)) EXCEPT !.should_cont = FALSE]

\* CaseSpace without line 125: the space is pushed back and the loop reads on
CaseSpaceReadsOn(s) ==
    IF s.str = <<>> THEN s
    ELSE Putback(s)

\* default, a space (lines 121-128)
CaseSpace(s) ==
    IF s.str = <<>> THEN s
    ELSE [Putback(s) EXCEPT !.should_cont = FALSE]

\* CaseInvalid without line 133
CaseInvalidStaysValid(s) == [Putback(Take(s)) EXCEPT !.should_cont = FALSE]

\* default, neither space nor digit (lines 129-135)
CaseInvalid(s) ==
    [Putback(Take(s)) EXCEPT !.should_cont = FALSE, !.is_valid_num = FALSE]

\* the digit taken and pushed back as well, the call ending on it
CaseDigitPutBack(s) ==
    [Putback(Take(s)) EXCEPT !.is_valid_num = TRUE, !.should_cont = FALSE]

\* default, a digit (lines 136-137)
CaseDigit(s) == [Take(s) EXCEPT !.is_valid_num = TRUE]

\* the switch (lines 87-138)
Switch(s) ==
    CASE s.c = EOI -> CaseEOI(s)
      [] s.c \in {MINUS, PLUS} -> CaseSign(s)
      [] s.c = RADIX_POINT -> CaseRadixPoint(s)
      [] s.c \in {MULT, DIV} -> CaseMultDiv(s)
      [] OTHER -> IF IsSpace(s.c) THEN CaseSpace(s)
                  ELSE IF ~IsDigit(s.c) THEN CaseInvalid(s)
                  ELSE CaseDigit(s)

\* back to the loop condition: should_cont decides (line 86)
LoopAgain(s) == [s EXCEPT !.pc = IF s.should_cont THEN "read" ELSE "classify"]

\* one pass of the while loop of next_tok (lines 86-139)
ReadStep(s, w) ==
    IF HasChar(s, w) THEN LoopAgain(Switch(Get(s, w))) ELSE GetNothing(s, w)

\* --------------------------------------------------- the catch clauses
\* what the handler of main writes for an exception (lines 248-264)
Message(kind, payload) ==
    CASE kind = "InvalidExpression" -> <<"Invalid expression: ", payload>>
      [] kind = "InvalidInput" ->
            IF Len(payload) > 0 THEN <<"Invalid input", ": ", payload>>
            ELSE <<"Invalid input">>
      [] kind = "DivByZero" -> <<"Division by zero: ", payload, " / 0">>
      \* e.what() of libstdc++: the text of line 142 and that of the error code
      [] kind = "ios_base::failure" ->
            <<"Input stream failure: iostream error">>
      [] OTHER -> <<"Could not convert to number">>

\* the handlers of lines 259-264 write e.what() to cerr, the others write
\* to wcerr
Narrow(kind) == kind \in {"ios_base::failure", "runtime_error"}

\* Throw with the handler inside the loop: the message is written and the
\* loop goes on
ThrowAndGoOn(s, kind, payload) ==
    [s EXCEPT !.thrown = [kind |-> kind, payload |-> payload],
              !.wcerr = IF Narrow(kind) THEN @
                        ELSE Append(@, Message(kind, payload)),
              !.cerr = IF Narrow(kind) THEN Append(@, Message(kind, payload))
                       ELSE @,
              !.pc = "loop"]

\* throw: the exception leaves the try block and its handler runs
Throw(s, kind, payload) ==
    [s EXCEPT !.thrown = [kind |-> kind, payload |-> payload],
              !.wcerr = IF Narrow(kind) THEN @
                        ELSE Append(@, Message(kind, payload)),
              !.cerr = IF Narrow(kind) THEN Append(@, Message(kind, payload))
                       ELSE @,
              !.pc = "done"]

\* --------------------------------------------- next_tok, after the loop
Operators == {Str1(MINUS), Str1(PLUS), Str1(MULT), Str1(DIV)}

\* lines 147-148
Classify(text) == text \in Operators

\* NextTokEnd without the is.eof() of line 150: only the terminator ends
\* the input
NextTokEndOnTerminator(s) ==
    IF ~Good(s) /\ ~s.eofbit THEN Throw(s, "ios_base::failure", <<>>)
    ELSE LET t == [s EXCEPT !.IsOperator = Classify(s.str),
                            !.EndOfInput = @ \/ s.got_eoi]
         IN  IF ~t.EndOfInput /\ ~t.is_valid_num /\ ~t.IsOperator
             THEN Throw(t, "InvalidExpression", t.str)
             ELSE [t EXCEPT !.tok = t.str, !.pc = "apply"]

\* lines 141-154
NextTokEnd(s) ==
    IF ~Good(s) /\ ~s.eofbit THEN Throw(s, "ios_base::failure", <<>>)
    ELSE LET t == [s EXCEPT !.IsOperator = Classify(s.str),
                            !.EndOfInput = @ \/ s.eofbit \/ s.got_eoi]
         IN  IF ~t.EndOfInput /\ ~t.is_valid_num /\ ~t.IsOperator
             THEN Throw(t, "InvalidExpression", t.str)
             ELSE [t EXCEPT !.tok = t.str, !.pc = "apply"]

\* the call next_tok(wcin) of line 179: fresh locals (lines 79-84)
NextTokBegin(s) ==
    [s EXCEPT !.str = <<>>, !.c = NUL, !.got_radixpt = FALSE,
              !.is_valid_num = FALSE, !.should_cont = TRUE, !.got_eoi = FALSE,
              !.raw = <<>>, !.nputback = 0, !.entry = s.pos, !.pc = "read"]

\* ------------------------------------------------------- main, the loop
Back(m) == m[Len(m)]
PopBack(m) == SubSeq(m, 1, Len(m) - 1)

\* Trace with a print_stack that pops what it prints
TraceDraining(s, line) ==
    IF s.flag_verbose
    THEN [s EXCEPT !.wcout = Append(@, line),
                   !.mem = IF line[1] = "Stack: " THEN <<>> ELSE @]
    ELSE s

\* wcout << ..., in verbose mode only
Trace(s, line) == IF s.flag_verbose THEN [s EXCEPT !.wcout = Append(@, line)] ELSE s

\* the lexeme is taken up by the body of the loop
Noted(s) == [s EXCEPT !.lexemes = Append(@, [text |-> s.tok, op |-> s.IsOperator]),
                      !.pc = "loop"]

\* lines 187-190, x being what ss >> n has delivered
Converted(s, x) ==
    IF x.fail /\ ~x.eof THEN Throw(s, "runtime_error", <<>>)
    ELSE [Trace(s, <<"Number ", x.n>>) EXCEPT !.mem = Append(@, x.n)]

\* PushNumber that pushes only what the extraction has delivered: a lexeme
\* that fails to convert is passed over
PushNumberDropsFailed(s) ==
    LET x == Extract(s.tok)
    IN  IF x.fail THEN s
        ELSE [Trace(s, <<"Number ", x.n>>) EXCEPT !.mem = Append(@, x.n)]

\* a number (lines 182-190)
PushNumber(s) == Converted(s, Extract(s.tok))

\* Compute with the operands of the subtraction and the division taken in
\* the order they leave the stack
ComputeSwapped(op, n1, n2) ==
    IF op = Str1(DIV) /\ ~IsZero(n1) THEN DDiv(n2, n1)
    ELSE IF op = Str1(MULT) THEN DMul(n1, n2)
    ELSE IF op = Str1(MINUS) THEN DSub(n2, n1)
    ELSE IF op = Str1(PLUS) THEN DAdd(n1, n2)
    ELSE Zero

\* lines 210-215: res is 0.0 and the last of the four tests that holds
\* assigns it
Compute(op, n1, n2) ==
    IF op = Str1(DIV) THEN DDiv(n1, n2)
    ELSE IF op = Str1(MULT) THEN DMul(n1, n2)
    ELSE IF op = Str1(MINUS) THEN DSub(n1, n2)
    ELSE IF op = Str1(PLUS) THEN DAdd(n1, n2)
    ELSE Zero

\* lines 217-227: the equation is shown and res pushed
PushResult(s, n1, n2, res) ==
    LET e == Trace(s, <<"equation", n1, s.tok, n2, res>>)
        f == [e EXCEPT !.mem = Append(@, res)]
    IN  Trace(f, <<"Stack: ", f.mem>>)

\* DividesByZero testing for the wrong operator
DividesByZeroWrongOp(op, n2) == op = Str1(MULT) /\ IsZero(n2)

\* line 205
DividesByZero(op, n2) == op = Str1(DIV) /\ IsZero(n2)

\* ApplyOperator without the second test of line 203: with one value on
\* the stack the first operand is taken to be 0
ApplyOperatorOneTest(s) ==
    LET a == Trace(Trace(s, <<"Operator ", s.tok>>), <<"Stack: ", s.mem>>)
    IN  IF a.mem = <<>> THEN Throw(a, "InvalidInput", <<>>)
        ELSE LET n2 == Back(a.mem)
                 b  == [a EXCEPT !.mem = PopBack(@)]
                 n1 == IF b.mem = <<>> THEN Zero ELSE Back(b.mem)
                 d  == IF b.mem = <<>> THEN b ELSE [b EXCEPT !.mem = PopBack(@)]
             IN  IF DividesByZero(d.tok, n2)
                 THEN Throw(Trace(d, <<"endl">>), "DivByZero", n1)
                 ELSE PushResult(d, n1, n2, Compute(d.tok, n1, n2))

\* ApplyOperator without the pop of line 204: the left operand is read and
\* stays on the stack under the result
ApplyOperatorKeepsLeft(s) ==
    LET a == Trace(Trace(s, <<"Operator ", s.tok>>), <<"Stack: ", s.mem>>)
    IN  IF a.mem = <<>> THEN Throw(a, "InvalidInput", <<>>)
        ELSE LET n2 == Back(a.mem)
                 b  == [a EXCEPT !.mem = PopBack(@)]
             IN  IF b.mem = <<>> THEN Throw(b, "InvalidInput", <<>>)
                 ELSE LET n1 == Back(b.mem)
                      IN  IF DividesByZero(b.tok, n2)
                          THEN Throw(Trace(b, <<"endl">>), "DivByZero", n1)
                          ELSE PushResult(b, n1, n2, Compute(b.tok, n1, n2))

\* an operator (lines 193-228)
ApplyOperator(s) ==
    LET a == Trace(Trace(s, <<"Operator ", s.tok>>), <<"Stack: ", s.mem>>)
    IN  IF a.mem = <<>> THEN Throw(a, "InvalidInput", <<>>)
        ELSE LET n2 == Back(a.mem)
                 b  == [a EXCEPT !.mem = PopBack(@)]
             IN  IF b.mem = <<>> THEN Throw(b, "InvalidInput", <<>>)
                 ELSE LET n1 == Back(b.mem)
                          d  == [b EXCEPT !.mem = PopBack(@)]
                      IN  IF DividesByZero(d.tok, n2)
                          THEN Throw(Trace(d, <<"endl">>), "DivByZero", n1)
                          ELSE PushResult(d, n1, n2, Compute(d.tok, n1, n2))

\* line 180 with the test of the lexeme left out: nothing is taken up
\* once end of input is seen
HasLexemeNotAtEnd(s) == ~s.EndOfInput

\* line 180: is there a lexeme to take up
HasLexeme(s) == ~s.EndOfInput \/ s.tok # <<>>

\* the body of the loop after next_tok has returned (lines 180-230)
LoopBody(s) ==
    IF ~HasLexeme(s) THEN [s EXCEPT !.pc = "loop"]
    ELSE IF ~s.IsOperator THEN PushNumber(Noted(s))
    ELSE ApplyOperator(Noted(s))

\* ------------------------------------------------- main, after the loop
\* PrintResult with the test of line 239 made before the pop of line 238
PrintResultTestsFirst(s) ==
    LET a == [Trace(s, <<"Result: ">>) EXCEPT !.wcout = Append(@, <<"value", Back(s.mem)>>),
                                               !.result = Back(s.mem),
                                               !.mem = PopBack(@),
                                               !.pc = "done"]
        b == [a EXCEPT !.wcerr = Append(@, <<"The input was improper; the stack is not empty.">>),
                       !.warned = TRUE]
    IN  IF s.mem = <<>> THEN a
        ELSE IF b.flag_verbose
             THEN [b EXCEPT !.wcerr = Append(@, <<"Stack: ">>),
                            !.wcout = Append(@, <<"stack", b.mem>>)]
             ELSE b

\* lines 236-246, the stack holding a value
PrintResult(s) ==
    LET a == [Trace(s, <<"Result: ">>) EXCEPT !.wcout = Append(@, <<"value", Back(s.mem)>>),
                                               !.result = Back(s.mem),
                                               !.mem = PopBack(@),
                                               !.pc = "done"]
        b == [a EXCEPT !.wcerr = Append(@, <<"The input was improper; the stack is not empty.">>),
                       !.warned = TRUE]
    IN  IF a.mem = <<>> THEN a
        ELSE IF b.flag_verbose
             THEN [b EXCEPT !.wcerr = Append(@, <<"Stack: ">>),
                            !.wcout = Append(@, <<"stack", b.mem>>)]
             ELSE b

\* lines 237-239 on an empty list are undefined: back() reads no element
\* and pop_back() unlinks none.  What the build does with it: some value
\* is printed, and then the process dies or goes on, the list seeming
\* empty or not.
Undefined ==
    {[value |-> v, dies |-> d, nonempty |-> n] :
        v \in {Zero, Exact(FALSE, <<1>>, 0)}, d \in BOOLEAN, n \in BOOLEAN}

PrintNothing(s, u) ==
    LET a == [Trace(s, <<"Result: ">>) EXCEPT !.wcout = Append(@, <<"value", u.value>>),
                                               !.result = u.value]
    IN  IF u.dies THEN [a EXCEPT !.pc = "crashed"]
        ELSE IF u.nonempty
             THEN [a EXCEPT !.wcerr = Append(@, <<"The input was improper; the stack is not empty.">>),
                            !.warned = TRUE, !.pc = "done"]
             ELSE [a EXCEPT !.pc = "done"]

\* ------------------------------------------------------ one step of a run
\* the step a run takes next, given the stream and how undefined behaviour
\* comes out; a finished or blocked run stays as it is
Step(s, w, u) ==
    CASE s.pc = "loop" /\ ~s.EndOfInput -> NextTokBegin(s)
      [] s.pc = "loop" /\ s.EndOfInput /\ s.mem # <<>> -> PrintResult(s)
      [] s.pc = "loop" /\ s.EndOfInput /\ s.mem = <<>> -> PrintNothing(s, u)
      [] s.pc = "read" /\ Ready(s, w) -> ReadStep(s, w)
      [] s.pc = "classify" -> NextTokEnd(s)
      [] s.pc = "apply" -> LoopBody(s)
      [] OTHER -> s

\* ---------------------------------------------------------------- actions
\* Each action is one step of the run of main; T says what the second run
\* does meanwhile (nothing, in the specification Spec).

\* main starts: nothing typed yet, the command line chosen
InitRun ==
    /\ wcin = [chars |-> <<>>, ended |-> FALSE, broken |-> FALSE]
    /\ flag_verbose \in BOOLEAN
    /\ pos = 0 /\ eofbit = FALSE /\ failbit = FALSE /\ badbit = FALSE
    /\ str = <<>> /\ c = NUL /\ got_radixpt = FALSE /\ is_valid_num = FALSE
    /\ should_cont = TRUE /\ got_eoi = FALSE
    /\ EndOfInput = FALSE /\ IsOperator = FALSE
    /\ tok = <<>> /\ mem = <<>> /\ pc = "loop"
    /\ thrown = NoException /\ wcout = <<>> /\ wcerr = <<>> /\ cerr = <<>>
    /\ result = NoResult /\ warned = FALSE
    /\ raw = <<>> /\ nputback = 0 /\ entry = 0 /\ lexemes = <<>>

Init ==
    /\ InitRun
    /\ twin = Start(~flag_verbose)

\* line 178, EndOfInput false: next_tok is called
CallNextTok(T) ==
    /\ pc = "loop" /\ ~EndOfInput
    /\ UNCHANGED wcin
    /\ SetCfg(NextTokBegin(Cfg))
    /\ T

\* wcin.get(c) delivers a character of the set chars, and the case of the
\* switch that handles it brings the run to s
Reads(chars, w) ==
    /\ pc = "read"
    /\ w \in Feed(Cfg, wcin)
    /\ HasChar(Cfg, w)
    /\ w.chars[pos + 1] \in chars
    /\ wcin' = w

GetEOI(T) ==
    /\ \E w \in Feed(Cfg, wcin) :
          Reads({EOI}, w) /\ SetCfg(LoopAgain(CaseEOI(Get(Cfg, w))))
    /\ T

GetSign(T) ==
    /\ \E w \in Feed(Cfg, wcin) :
          Reads({MINUS, PLUS}, w) /\ SetCfg(LoopAgain(CaseSign(Get(Cfg, w))))
    /\ T

GetRadixPoint(T) ==
    /\ \E w \in Feed(Cfg, wcin) :
          Reads({RADIX_POINT}, w) /\ SetCfg(LoopAgain(CaseRadixPoint(Get(Cfg, w))))
    /\ T

GetMultDiv(T) ==
    /\ \E w \in Feed(Cfg, wcin) :
          Reads({MULT, DIV}, w) /\ SetCfg(LoopAgain(CaseMultDiv(Get(Cfg, w))))
    /\ T

GetSpace(T) ==
    /\ \E w \in Feed(Cfg, wcin) :
          Reads(Spaces, w) /\ SetCfg(LoopAgain(CaseSpace(Get(Cfg, w))))
    /\ T

GetInvalid(T) ==
    /\ \E w \in Feed(Cfg, wcin) :
          Reads(Others, w) /\ SetCfg(LoopAgain(CaseInvalid(Get(Cfg, w))))
    /\ T

GetDigit(T) ==
    /\ \E w \in Feed(Cfg, wcin) :
          Reads(Digits, w) /\ SetCfg(LoopAgain(CaseDigit(Get(Cfg, w))))
    /\ T

\* wcin.get(c) finds the stream at its end
GetEndOfStream(T) ==
    /\ pc = "read"
    /\ \E w \in Feed(Cfg, wcin) :
          /\ ~HasChar(Cfg, w) /\ w.ended /\ ~w.broken
          /\ wcin' = w
          /\ SetCfg(GetNothing(Cfg, w))
    /\ T

\* wcin.get(c) meets a read error
GetError(T) ==
    /\ pc = "read"
    /\ \E w \in Feed(Cfg, wcin) :
          /\ ~HasChar(Cfg, w) /\ w.broken
          /\ wcin' = w
          /\ SetCfg(GetNothing(Cfg, w))
    /\ T

\* lines 141-142
ThrowFailure(T) ==
    /\ pc = "classify"
    /\ NextTokEnd(Cfg).thrown.kind = "ios_base::failure"
    /\ UNCHANGED wcin
    /\ SetCfg(NextTokEnd(Cfg))
    /\ T

\* lines 147-152
ThrowInvalidExpression(T) ==
    /\ pc = "classify"
    /\ NextTokEnd(Cfg).thrown.kind = "InvalidExpression"
    /\ UNCHANGED wcin
    /\ SetCfg(NextTokEnd(Cfg))
    /\ T

\* lines 147-154, next_tok returns
ReturnTok(T) ==
    /\ pc = "classify"
    /\ NextTokEnd(Cfg).pc = "apply"
    /\ UNCHANGED wcin
    /\ SetCfg(NextTokEnd(Cfg))
    /\ T

\* line 180, the end of the input with no lexeme left
SkipEmpty(T) ==
    /\ pc = "apply" /\ ~HasLexeme(Cfg)
    /\ UNCHANGED wcin
    /\ SetCfg(LoopBody(Cfg))
    /\ T

\* lines 181-191
Number(T) ==
    /\ pc = "apply" /\ HasLexeme(Cfg) /\ ~IsOperator
    /\ UNCHANGED wcin
    /\ SetCfg(PushNumber(Noted(Cfg)))
    /\ T

\* lines 192-204, the stack too short
Underflow(T) ==
    /\ pc = "apply" /\ HasLexeme(Cfg) /\ IsOperator
    /\ ApplyOperator(Noted(Cfg)).thrown.kind = "InvalidInput"
    /\ UNCHANGED wcin
    /\ SetCfg(ApplyOperator(Noted(Cfg)))
    /\ T

\* lines 192-208
DivideByZero(T) ==
    /\ pc = "apply" /\ HasLexeme(Cfg) /\ IsOperator
    /\ ApplyOperator(Noted(Cfg)).thrown.kind = "DivByZero"
    /\ UNCHANGED wcin
    /\ SetCfg(ApplyOperator(Noted(Cfg)))
    /\ T

\* lines 192-228
Operator(T) ==
    /\ pc = "apply" /\ HasLexeme(Cfg) /\ IsOperator
    /\ ApplyOperator(Noted(Cfg)).thrown = NoException
    /\ UNCHANGED wcin
    /\ SetCfg(ApplyOperator(Noted(Cfg)))
    /\ T

\* lines 178 and 233-246, EndOfInput true and a value on the stack
Finish(T) ==
    /\ pc = "loop" /\ EndOfInput /\ mem # <<>>
    /\ UNCHANGED wcin
    /\ SetCfg(PrintResult(Cfg))
    /\ T

\* lines 178 and 233-246, EndOfInput true and the stack empty
FinishUndefined(T) ==
    /\ pc = "loop" /\ EndOfInput /\ mem = <<>>
    /\ UNCHANGED wcin
    /\ \E u \in Undefined : SetCfg(PrintNothing(Cfg, u))
    /\ T

\* the second run does not move
Alone == UNCHANGED twin

Next ==
    \/ CallNextTok(Alone)
    \/ GetEOI(Alone)
    \/ GetSign(Alone)
    \/ GetRadixPoint(Alone)
    \/ GetMultDiv(Alone)
    \/ GetSpace(Alone)
    \/ GetInvalid(Alone)
    \/ GetDigit(Alone)
    \/ GetEndOfStream(Alone)
    \/ GetError(Alone)
    \/ ThrowFailure(Alone)
    \/ ThrowInvalidExpression(Alone)
    \/ ReturnTok(Alone)
    \/ SkipEmpty(Alone)
    \/ Number(Alone)
    \/ Underflow(Alone)
    \/ DivideByZero(Alone)
    \/ Operator(Alone)
    \/ Finish(Alone)
    \/ FinishUndefined(Alone)

Spec == Init /\ [][Next]_vars

\* ------------------------------------------- two runs on the same input
\* the second run takes its step on the same stream, undefined behaviour
\* coming out for it as it may
Paired ==
    \E u \in (IF twin.pc = "loop" /\ twin.EndOfInput /\ twin.mem = <<>>
              THEN Undefined ELSE {CHOOSE x \in Undefined : TRUE}) :
        twin' = Step(twin, wcin', u)

NextTwin ==
    \/ CallNextTok(Paired)
    \/ GetEOI(Paired)
    \/ GetSign(Paired)
    \/ GetRadixPoint(Paired)
    \/ GetMultDiv(Paired)
    \/ GetSpace(Paired)
    \/ GetInvalid(Paired)
    \/ GetDigit(Paired)
    \/ GetEndOfStream(Paired)
    \/ GetError(Paired)
    \/ ThrowFailure(Paired)
    \/ ThrowInvalidExpression(Paired)
    \/ ReturnTok(Paired)
    \/ SkipEmpty(Paired)
    \/ Number(Paired)
    \/ Underflow(Paired)
    \/ DivideByZero(Paired)
    \/ Operator(Paired)
    \/ Finish(Paired)
    \/ FinishUndefined(Paired)

\* main run with flag_verbose, second run with the flag inverted
SpecTwin == Init /\ [][NextTwin]_vars

\* ------------------------- two runs on streams alike up to the terminator
\* both runs with the same command line
InitSame ==
    /\ InitRun
    /\ twin = Start(flag_verbose)

\* what follows the first terminator on the stream of the second run
Junk == <<"@", "1">>

\* the stream of the second run: that of the main run up to and including
\* its first terminator, then Junk
WithTail(w) ==
    LET at == {i \in 1..Len(w.chars) : w.chars[i] = EOI}
    IN  IF at = {} THEN w
        ELSE LET first == CHOOSE i \in at : \A j \in at : i <= j
             IN  [w EXCEPT !.chars = SubSeq(w.chars, 1, first) \o Junk]

PairedTail ==
    \E u \in (IF twin.pc = "loop" /\ twin.EndOfInput /\ twin.mem = <<>>
              THEN Undefined ELSE {CHOOSE x \in Undefined : TRUE}) :
        twin' = Step(twin, WithTail(wcin'), u)

NextTail ==
    \/ CallNextTok(PairedTail)
    \/ GetEOI(PairedTail)
    \/ GetSign(PairedTail)
    \/ GetRadixPoint(PairedTail)
    \/ GetMultDiv(PairedTail)
    \/ GetSpace(PairedTail)
    \/ GetInvalid(PairedTail)
    \/ GetDigit(PairedTail)
    \/ GetEndOfStream(PairedTail)
    \/ GetError(PairedTail)
    \/ ThrowFailure(PairedTail)
    \/ ThrowInvalidExpression(PairedTail)
    \/ ReturnTok(PairedTail)
    \/ SkipEmpty(PairedTail)
    \/ Number(PairedTail)
    \/ Underflow(PairedTail)
    \/ DivideByZero(PairedTail)
    \/ Operator(PairedTail)
    \/ Finish(PairedTail)
    \/ FinishUndefined(PairedTail)

\* main run on a stream, second run on the stream with Junk after the
\* first terminator
SpecTail == InitSame /\ [][NextTail]_vars

\* --------------------- two runs, end of stream against the terminator
\* the stream of the second run: a terminator where that of the main run
\* ends
WithEOI(w) ==
    IF w.ended THEN [w EXCEPT !.chars = Append(@, EOI), !.ended = FALSE]
    ELSE w

PairedEnd ==
    \E u \in (IF twin.pc = "loop" /\ twin.EndOfInput /\ twin.mem = <<>>
              THEN Undefined ELSE {CHOOSE x \in Undefined : TRUE}) :
        twin' = Step(twin, WithEOI(wcin'), u)

NextEnd ==
    \/ CallNextTok(PairedEnd)
    \/ GetEOI(PairedEnd)
    \/ GetSign(PairedEnd)
    \/ GetRadixPoint(PairedEnd)
    \/ GetMultDiv(PairedEnd)
    \/ GetSpace(PairedEnd)
    \/ GetInvalid(PairedEnd)
    \/ GetDigit(PairedEnd)
    \/ GetEndOfStream(PairedEnd)
    \/ GetError(PairedEnd)
    \/ ThrowFailure(PairedEnd)
    \/ ThrowInvalidExpression(PairedEnd)
    \/ ReturnTok(PairedEnd)
    \/ SkipEmpty(PairedEnd)
    \/ Number(PairedEnd)
    \/ Underflow(PairedEnd)
    \/ DivideByZero(PairedEnd)
    \/ Operator(PairedEnd)
    \/ Finish(PairedEnd)
    \/ FinishUndefined(PairedEnd)

\* main run on a stream, second run on the stream with a terminator at its
\* end
SpecEnd == InitSame /\ [][NextEnd]_vars

\* =================================================================== claims
Finished == pc \in {"done", "crashed"}

\* ---- reference postfix evaluation of a lexeme sequence
\* the double of an integer below 2^31
OfInt(n) == Exact(n < 0, NatOf(Abs(n)), 0)

\* the quotient of two integers as the division of doubles gives it
Dbl(n, d) == IF n = 0 THEN Zero ELSE DDiv(OfInt(n), OfInt(d))

\* optional sign, at least one digit, at most one point, no point at the end
ValidNumber(text) ==
    LET body == IF Len(text) >= 1 /\ text[1] \in {PLUS, MINUS}
                THEN SubSeq(text, 2, Len(text)) ELSE text
    IN  /\ \A i \in 1..Len(body) : body[i] \in Digits \cup {RADIX_POINT}
        /\ \E i \in 1..Len(body) : body[i] \in Digits
        /\ Cardinality({i \in 1..Len(body) : body[i] = RADIX_POINT}) <= 1
        /\ body # <<>> /\ body[Len(body)] # RADIX_POINT

RECURSIVE IntOf(_)
IntOf(ds) ==
    IF ds = <<>> THEN 0
    ELSE 10 * IntOf(SubSeq(ds, 1, Len(ds) - 1)) + DigitVal(ds[Len(ds)])

\* the decimal value of a valid number text
RefValue(text) ==
    LET dot   == {i \in 1..Len(text) : text[i] = RADIX_POINT}
        scale == IF dot = {} THEN 0 ELSE Len(text) - (CHOOSE i \in dot : TRUE)
        n     == IntOf(SelectSeq(text, IsDigit))
        neg   == text[1] = MINUS
    IN  IF n = 0 THEN (IF neg THEN NegZero ELSE Zero)
        ELSE DDiv(OfInt(IF neg THEN -n ELSE n), OfInt(Pow10(scale)))

RefApply(op, a, b) ==
    CASE op = <<"+">> -> DAdd(a, b)
      [] op = <<"-">> -> DSub(a, b)
      [] op = <<"*">> -> DMul(a, b)
      [] op = <<"/">> -> DDiv(a, b)

\* the stack after the lexemes lex, ok false when some operator finds
\* fewer than two values or divides by zero, or a number is malformed
RECURSIVE RefStack(_)
RefStack(lex) ==
    IF lex = <<>> THEN [ok |-> TRUE, st |-> <<>>]
    ELSE LET r == RefStack(SubSeq(lex, 1, Len(lex) - 1))
             l == lex[Len(lex)]
             n == Len(r.st)
         IN  IF ~r.ok THEN r
             ELSE IF l.op
                  THEN IF n < 2 \/ (l.text = <<"/">> /\ IsZero(r.st[n]))
                       THEN [ok |-> FALSE, st |-> <<>>]
                       ELSE [ok |-> TRUE,
                             st |-> Append(SubSeq(r.st, 1, n - 2),
                                           RefApply(l.text, r.st[n - 1], r.st[n]))]
                  ELSE IF ~ValidNumber(l.text) THEN [ok |-> FALSE, st |-> <<>>]
                       ELSE [ok |-> TRUE, st |-> Append(r.st, RefValue(l.text))]

WellFormed(lex) == RefStack(lex).ok /\ Len(RefStack(lex).st) = 1

\* C1: when the whole input has been tokenized and its lexeme sequence is a
\* well-formed postfix expression, the run ends normally, the value printed
\* is the value of the reference evaluation, the stack is empty after the
\* final pop and no leftover warning is written.
C1_WellFormedValue ==
    (Finished /\ EndOfInput /\ WellFormed(lexemes)) =>
        /\ pc = "done" /\ thrown = NoException
        /\ result = RefStack(lexemes).st[1]
        /\ mem = <<>> /\ ~warned

\* "0 1-" evaluated to -1
C1_Witness ==
    /\ Finished /\ EndOfInput /\ WellFormed(lexemes)
    /\ Len(lexemes) = 3 /\ lexemes[3].text = <<"-">>
    /\ result = Dbl(-1, 1)

\* C2: a division applied with at least two values on the stack and a zero
\* on top throws DivByZero carrying the value below the top; nothing is
\* pushed, and no result is printed then or later.
C2_DivisionByZero ==
    /\ [][(/\ pc = "apply" /\ HasLexeme(Cfg) /\ IsOperator /\ tok = <<"/">>
           /\ Len(mem) >= 2 /\ IsZero(mem[Len(mem)]))
          => (/\ thrown' = [kind |-> "DivByZero", payload |-> mem[Len(mem) - 1]]
              /\ mem' = SubSeq(mem, 1, Len(mem) - 2)
              /\ pc' = "done" /\ result' = NoResult)]_vars
    /\ [](thrown.kind = "DivByZero" => pc = "done" /\ result = NoResult)

\* "1 0/": the dividend 1 is the payload
C2_Witness ==
    /\ thrown = [kind |-> "DivByZero", payload |-> Dbl(1, 1)]
    /\ Len(lexemes) = 3 /\ lexemes[2].text = <<"0">>

\* C3: an operator taken up with fewer than two values on the stack throws
\* InvalidInput, a division over a single zero included; no result is
\* printed then or later.
C3_Underflow ==
    /\ [][(pc = "apply" /\ HasLexeme(Cfg) /\ IsOperator /\ Len(mem) < 2)
          => (/\ thrown' = [kind |-> "InvalidInput", payload |-> <<>>]
              /\ pc' = "done" /\ result' = NoResult)]_vars
    /\ [](thrown.kind = "InvalidInput" => pc = "done" /\ result = NoResult)

\* "0/": a division with the single value 0 on the stack
C3_Witness ==
    /\ thrown.kind = "InvalidInput"
    /\ Len(lexemes) = 2 /\ lexemes[1].text = <<"0">> /\ lexemes[2].text = <<"/">>

\* ---- what a step of next_tok's loop reads
\* the step is a successful wcin.get(c) delivering ch
ReadsChar(ch) ==
    /\ pc = "read"
    /\ pos < Len(wcin'.chars)
    /\ wcin'.chars[pos + 1] = ch
\* the step is a wcin.get(c) finding the end of the stream
ReadsEnd == pc = "read" /\ eofbit'

\* C4: a character that is no digit, sign, point, operator, space or
\* terminator is appended to the text accumulated so far and pushed back,
\* and next_tok then throws InvalidExpression with that text; no character
\* is read after it, nothing is pushed or popped and no result is printed.
C4_InvalidCharacter ==
    /\ [][/\ \A ch \in Others : ReadsChar(ch) =>
                /\ str' = Append(str, ch) /\ pos' = pos
                /\ pc' = "classify" /\ mem' = mem
          /\ (pc = "classify" /\ c \in Others) =>
                /\ thrown' = [kind |-> "InvalidExpression", payload |-> str]
                /\ pc' = "done" /\ mem' = mem /\ result' = NoResult]_vars
    /\ []((\E i \in 1..Len(wcin.chars) : wcin.chars[i] \in Others) =>
            /\ wcin.chars[Len(wcin.chars)] \in Others
            /\ pos = Len(wcin.chars) - 1
            /\ pc \in {"classify", "done"}
            /\ str[Len(str)] = wcin.chars[Len(wcin.chars)]
            /\ result = NoResult
            /\ pc = "done" => thrown = [kind |-> "InvalidExpression", payload |-> str])

\* "1 1.@": the text "1.@" is reported, the first 1 stays on the stack
C4_Witness ==
    /\ thrown = [kind |-> "InvalidExpression", payload |-> <<"1", ".", "@">>]
    /\ Len(mem) = 1

\* C5: with EndOfInput reached and no lexeme ever taken up, the run ends
\* with InvalidInput and prints no result.
C5_EmptyInputFails ==
    (Finished /\ EndOfInput /\ lexemes = <<>>) =>
        (thrown.kind = "InvalidInput" /\ result = NoResult)

\* C6: the loop left without error and the stack not empty, the value on
\* top is printed and popped, no exception is raised, and the leftover
\* warning is written exactly when values remain after that pop; with more
\* than one value the rest stays on the stack and is only warned about.
C6_LeftoverWarning ==
    /\ [][(pc = "loop" /\ EndOfInput /\ mem # <<>>) =>
            /\ result' = mem[Len(mem)]
            /\ mem' = SubSeq(mem, 1, Len(mem) - 1)
            /\ thrown' = NoException /\ pc' = "done"
            /\ warned' <=> Len(mem) > 1
            /\ Len(wcerr') = (IF Len(mem) > 1 THEN 1 ELSE 0)
                               + (IF Len(mem) > 1 /\ flag_verbose THEN 1 ELSE 0)]_vars
    /\ []((warned /\ lexemes # <<>>) =>
            (pc = "done" /\ thrown = NoException /\ mem # <<>> /\ result # NoResult))

\* "1 1 0+": 1 is printed, the first 1 is left over and warned about
C6_Witness ==
    /\ pc = "done" /\ warned /\ thrown = NoException
    /\ Len(lexemes) = 4 /\ lexemes[4].text = <<"+">>
    /\ result = Dbl(1, 1) /\ mem = << Dbl(1, 1) >>

\* C7: every lexeme the loop takes up as a number is non-empty and a
\* lexically valid number.
C7_NumbersValid ==
    (pc = "apply" /\ HasLexeme(Cfg) /\ ~IsOperator) =>
        (tok # <<>> /\ ValidNumber(tok))

\* C8: a sign read into an empty lexeme and followed by the terminator, the
\* end of the stream, a space, a sign or * or / ends the loop as the text of
\* the lexeme, and next_tok returns it as an operator without throwing; a
\* digit after it is appended, the sign leading a number; a sign read with
\* text accumulated is pushed back, not appended, and ends the lexeme.
SignTexts == {Str1(PLUS), Str1(MINUS)}
StopChars == {EOI, PLUS, MINUS, MULT, DIV} \cup Spaces

C8_SignOrOperator ==
    /\ [][/\ \A ch \in {PLUS, MINUS} : ReadsChar(ch) =>
                IF str = <<>>
                THEN str' = Str1(ch) /\ pc' = "read" /\ nputback' = nputback
                ELSE /\ str' = str /\ pos' = pos /\ nputback' = nputback + 1
                     /\ pc' = "classify"
          /\ (str \in SignTexts /\ (ReadsEnd \/ \E ch \in StopChars : ReadsChar(ch))) =>
                (str' = str /\ pc' = "classify")
          /\ (pc = "classify" /\ str \in SignTexts /\ ~badbit) =>
                /\ pc' = "apply" /\ tok' = str /\ IsOperator'
                /\ thrown' = NoException
          /\ \A ch \in Digits : (str \in SignTexts /\ ReadsChar(ch)) =>
                (str' = Append(str, ch) /\ is_valid_num' /\ pc' = "read")]_vars
    /\ []((pc = "apply" /\ Len(raw) >= 2 /\ raw[1] \in {PLUS, MINUS}
              /\ raw[2] \in Digits) =>
            /\ ~IsOperator /\ tok[1] = raw[1] /\ Len(tok) >= 2
            /\ SignBit(Extract(tok).n) = (raw[1] = MINUS))

\* "-1 -;": the number -1, then a lone - before the terminator as operator
C8_Witness ==
    /\ pc = "apply" /\ tok = <<"-">> /\ IsOperator /\ got_eoi
    /\ Len(lexemes) = 1 /\ lexemes[1].text = <<"-", "1">> /\ ~lexemes[1].op
    /\ mem = << Dbl(-1, 1) >>

\* C9: a radix point read first gets a 0 put before it, so the text starts
\* with "0." and, digits following, is returned as a valid number of that
\* value; the 0 is put only when no text is accumulated.
C9_LeadingZero ==
    /\ [][(ReadsChar(RADIX_POINT) /\ ~got_radixpt) =>
            /\ str' = (IF str = <<>> THEN <<ZERO, RADIX_POINT>>
                       ELSE Append(str, RADIX_POINT))
            /\ got_radixpt' /\ ~is_valid_num']_vars
    /\ [](str = (IF raw # <<>> /\ raw[1] = RADIX_POINT THEN <<ZERO>> \o raw ELSE raw))
    /\ []((pc = "apply" /\ Len(raw) >= 2 /\ raw[1] = RADIX_POINT) =>
            /\ ~IsOperator /\ tok = <<ZERO>> \o raw
            /\ ValidNumber(tok)
            /\ Extract(tok).n = Dbl(IntOf(SubSeq(raw, 2, Len(raw))),
                                     Pow10(Len(raw) - 1)))

\* ".1" taken up as the number 0.1
C9_Witness ==
    /\ Len(lexemes) = 1 /\ lexemes[1].text = <<"0", ".", "1">>
    /\ raw = <<".", "1">>
    /\ mem = << Dbl(1, 10) >>

\* ---- two runs compared
\* the same characters consumed, the same tokenizer state and the same stack
SameEvaluation(a, b) ==
    /\ a.pos = b.pos /\ a.eofbit = b.eofbit /\ a.failbit = b.failbit
    /\ a.badbit = b.badbit
    /\ a.str = b.str /\ a.c = b.c /\ a.got_radixpt = b.got_radixpt
    /\ a.is_valid_num = b.is_valid_num /\ a.should_cont = b.should_cont
    /\ a.got_eoi = b.got_eoi
    /\ a.EndOfInput = b.EndOfInput /\ a.IsOperator = b.IsOperator
    /\ a.tok = b.tok /\ a.mem = b.mem /\ a.lexemes = b.lexemes
    /\ a.thrown = b.thrown

\* the same place in the program, the same result and the same warning
SameOutcome(a, b) == a.pc = b.pc /\ a.result = b.result /\ a.warned = b.warned

\* the run has executed lines 237-238 on an empty list
PastUndefined(s) ==
    s.pc \in {"done", "crashed"} /\ s.EndOfInput /\ s.lexemes = <<>>

\* C10: a run with flag_verbose set and a run with it clear, on the same
\* input, consume the same characters, go through the same stack states and
\* end with the same result and leftover stack or the same exception and
\* payload.  On the empty input both runs come to the print of an empty
\* stack, where the language defines no outcome to compare.
C10_VerboseSame ==
    /\ twin.flag_verbose = ~flag_verbose
    /\ SameEvaluation(Cfg, twin)
    /\ SameOutcome(Cfg, twin) \/ (PastUndefined(Cfg) /\ PastUndefined(twin))

\* "1 1 0+" in both modes: the verbose run has traced, the other has not
C10_Witness ==
    /\ flag_verbose /\ pc = "done" /\ twin.pc = "done"
    /\ Len(lexemes) = 4 /\ lexemes[4].op
    /\ Len(wcout) > 2 /\ Len(twin.wcout) = 1
    /\ result = Dbl(1, 1) /\ twin.result = Dbl(1, 1) /\ warned /\ twin.warned

\* ---------------------------------------------------------------- C11
\* how far the run has come: finished or not, lexemes taken up, characters
\* consumed, place in the loop body
Phase ==
    CASE pc = "loop" /\ ~EndOfInput -> 0
      [] pc = "read" -> 1
      [] pc = "classify" -> 2
      [] pc = "apply" -> 3
      [] OTHER -> 4

Rank == <<IF Finished THEN 1 ELSE 0, Len(lexemes), pos, Phase>>

\* lexicographic order on ranks
RankLess(a, b) ==
    \E i \in 1..4 : a[i] < b[i] /\ \A j \in 1..(i - 1) : a[j] = b[j]

\* the run has a step to take: whatever the environment does on a read,
\* the step function moves the run
CanStep ==
    \E w \in Feed(Cfg, wcin) : \E u \in Undefined : Step(Cfg, w, u) # Cfg

\* every step is the step of the run on the stream as it stands after it
StepOfRun == \E u \in Undefined : Cfg' = Step(Cfg, wcin', u)

\* every component of the rank is bounded by the length of the input
RankBounded == Len(lexemes) <= pos /\ pos <= Len(wcin.chars)

\* the ways the run ends: end of input seen, or one of the exceptions
EndedByInputOrError ==
    \/ EndOfInput
    \/ thrown.kind \in {"ios_base::failure", "InvalidExpression",
                        "InvalidInput", "DivByZero"}

\* a returned lexeme without end of input: the call has advanced the stream
Advanced ==
    (pc = "apply" /\ ~EndOfInput) => pos >= entry + 1 /\ tok # <<>>

\* C11: on every finite input the run terminates; it ends only at end of
\* input (terminator or end of stream), on a stream failure or on a
\* classification or evaluation error; every call of next_tok that returns
\* without end of input leaves the stream at least one character beyond
\* where the call found it, pushback counted.  Termination is stated on
\* finite runs: only a finished run has no step left, and every step
\* raises a rank bounded by the length of the input, so that no run on a
\* finite input goes on for ever.
C11_Terminates ==
    /\ [](Finished => EndedByInputOrError)
    /\ [](Advanced)
    /\ [](Finished \/ CanStep)
    /\ [](RankBounded)
    /\ [][StepOfRun /\ RankLess(Rank, Rank')]_vars

\* "1 1" before its end: the first call returned "1", one character on, the
\* space pushed back
C11_Witness ==
    /\ pc = "apply" /\ ~EndOfInput /\ tok = <<"1">>
    /\ lexemes = <<>> /\ entry = 0 /\ pos = 1 /\ nputback = 1 /\ c = " "

\* ---------------------------------------------------------------- C12
\* an operator lexeme is about to be applied to at least two values, the
\* divisor of a division not zero
AppliesOperator ==
    /\ pc = "apply" /\ HasLexeme(Cfg) /\ IsOperator /\ Len(mem) >= 2
    /\ ~(tok = <<"/">> /\ IsZero(mem[Len(mem)]))

\* C12: an operator applied to a stack of depth d >= 2, no division by zero,
\* takes the top value as right operand n2 and the value under it as left
\* operand n1, replaces the two by n1 op n2, leaves depth d - 1 and leaves
\* the values below the two as they were, in their order; no exception is
\* raised.
C12_OperatorFrame ==
    [][AppliesOperator =>
          LET d == Len(mem)
          IN  /\ mem' = Append(SubSeq(mem, 1, d - 2),
                               RefApply(tok, mem[d - 1], mem[d]))
              /\ Len(mem') = d - 1
              /\ \A i \in 1..(d - 2) : mem'[i] = mem[i]
              /\ thrown' = NoException /\ pc' = "loop"]_vars

\* "0+1-1-": 1 - (-1) = 2 has replaced the two top values, 0 stays below
C12_Witness ==
    /\ pc = "loop" /\ Len(lexemes) = 4 /\ lexemes[4].text = <<"-">>
    /\ lexemes[3].text = <<"-", "1">> /\ lexemes[4].op
    /\ mem = <<Zero, Dbl(2, 1)>>

\* ---------------------------------------------------------------- C13
\* next_tok has returned with end of input
AtEndWith(lexeme) == pc = "apply" /\ EndOfInput /\ (tok # <<>>) = lexeme

\* C13: a lexeme that next_tok returns together with end of input is taken
\* up (pushed, or applied to the stack) before the loop is left; an empty
\* one changes nothing; once end of input is signalled it stays signalled,
\* next_tok is not called again and nothing more is read; the loop is then
\* left in one step, and the finished run takes no further step.
C13_FinalLexeme ==
    /\ [][AtEndWith(TRUE) =>
             /\ lexemes' = Append(lexemes, [text |-> tok, op |-> IsOperator])
             /\ mem' # mem \/ thrown' # NoException]_vars
    /\ [][AtEndWith(FALSE) =>
             /\ lexemes' = lexemes /\ mem' = mem /\ thrown' = thrown
             /\ pc' = "loop"]_vars
    /\ [][EndOfInput =>
             /\ EndOfInput' /\ pc' \notin {"read", "classify"}
             /\ pos' = pos /\ wcin' = wcin]_vars
    /\ [][(pc = "loop" /\ EndOfInput) => Finished']_vars
    /\ [][~Finished]_vars
    /\ [](EndOfInput => pc \in {"apply", "loop", "done", "crashed"})

\* "1 0+;": the "+" came with the terminator and has been applied
C13_Witness ==
    /\ pc = "done" /\ got_eoi /\ wcin.chars = <<"1", " ", "0", "+", ";">>
    /\ Len(lexemes) = 3 /\ lexemes[3] = [text |-> <<"+">>, op |-> TRUE]
    /\ result = Dbl(1, 1) /\ ~warned /\ thrown = NoException

\* ---------------------------------------------------------------- C14
\* characters delivered by the stream and pushed back, not read again yet
PushedBack == Len(wcin.chars) - pos

\* C14: at most one character is pushed back and not read again, in every
\* state; a call of next_tok pushes back at most once, the character it has
\* read last, and stops reading with it; the character pushed back is the
\* first the next call reads.
C14_OnePushback ==
    /\ [](PushedBack \in {0, 1} /\ nputback <= 1)
    /\ [](nputback = 1 =>
             /\ ~should_cont /\ pc # "read"
             /\ PushedBack = 1 /\ wcin.chars[pos + 1] = c)
    /\ [](pc = "read" /\ PushedBack = 1 => pos = entry)
    /\ [][nputback' > nputback =>
             /\ pc = "read" /\ pc' = "classify" /\ pos' = pos
             /\ c' = wcin'.chars[pos + 1]]_vars

\* "1-": the "-" ends the number "1" and waits in the stream
C14_Witness ==
    /\ pc = "apply" /\ nputback = 1 /\ tok = <<"1">> /\ c = "-"
    /\ wcin.chars = <<"1", "-">> /\ pos = 1

\* ---------------------------------------------------------------- C15
Raised == thrown # NoException

\* C15: once an exception is raised the run is over: it is at its end with
\* no result and no warning of a leftover stack, and from then on nothing
\* is read, the value stack is not touched and nothing is printed.
C15_ErrorStops ==
    /\ [](Raised => pc = "done" /\ result = NoResult /\ ~warned)
    /\ [][Raised =>
             /\ pos' = pos /\ wcin' = wcin /\ mem' = mem
             /\ result' = result /\ warned' = warned
             /\ wcout' = wcout /\ wcerr' = wcerr /\ cerr' = cerr
             /\ thrown' = thrown]_vars
    /\ [][Raised' /\ ~Raised =>
             /\ \/ /\ cerr' = cerr
                   /\ wcerr' = Append(wcerr, Message(thrown'.kind, thrown'.payload))
                \/ /\ wcerr' = wcerr /\ Narrow(thrown'.kind)
                   /\ cerr' = Append(cerr, Message(thrown'.kind, thrown'.payload))
             /\ result' = NoResult /\ ~warned']_vars

\* "1 1 0/": the division by zero leaves a value on the stack, and neither
\* a result nor the warning is printed
C15_Witness ==
    /\ thrown = [kind |-> "DivByZero", payload |-> Dbl(1, 1)]
    /\ mem = <<Dbl(1, 1)>> /\ Len(lexemes) = 4 /\ pc = "done"
    /\ result = NoResult /\ ~warned

\* ---------------------------------------------------------------- C16
\* a call of next_tok begins on a radix point that the call before it has
\* pushed back
BeginsOnPushedPoint ==
    /\ pc = "read" /\ pos = entry
    /\ pos < Len(wcin.chars) /\ wcin.chars[pos + 1] = RADIX_POINT

\* C16: a radix point read when the lexeme has one already is not appended:
\* it is pushed back and the lexeme ends there; a call that begins on the
\* point pushed back makes it the start of its lexeme, after an inserted
\* zero.  "1.1.1" gives the number lexemes "1.1" and "0.1", and "1.." ends
\* with InvalidExpression for the text "1.".
C16_SecondRadixPoint ==
    /\ [][(ReadsChar(RADIX_POINT) /\ got_radixpt) =>
             /\ str' = str /\ raw' = raw /\ pos' = pos
             /\ nputback' = nputback + 1 /\ pc' = "classify"
             /\ c' = RADIX_POINT]_vars
    /\ [][BeginsOnPushedPoint =>
             /\ str' = <<ZERO, RADIX_POINT>> /\ raw' = <<RADIX_POINT>>
             /\ got_radixpt' /\ pos' = pos + 1]_vars
    /\ [](wcin.chars = <<"1", ".", "1", ".", "1">> /\ wcin.ended /\ Finished =>
             lexemes = <<[text |-> <<"1", ".", "1">>, op |-> FALSE],
                         [text |-> <<"0", ".", "1">>, op |-> FALSE]>>)
    /\ [](wcin.chars = <<"1", ".", ".">> =>
             \/ pc = "classify" /\ str = <<"1", ".">> /\ nputback = 1
             \/ thrown = [kind |-> "InvalidExpression", payload |-> <<"1", ".">>])

\* "1.1.1" evaluated: 1.1 and 0.1 on the stack, 0.1 printed, 1.1 left over
C16_Witness ==
    /\ wcin.chars = <<"1", ".", "1", ".", "1">> /\ wcin.ended /\ pc = "done"
    /\ Len(lexemes) = 2 /\ lexemes[2].text = <<"0", ".", "1">>
    /\ result = Dbl(1, 10) /\ mem = <<Dbl(11, 10)>> /\ warned

\* ---------------------------------------------------------------- C17
OpChars == {PLUS, MINUS, MULT, DIV}

\* an operator character read at the start of a lexeme becomes an operator
\* lexeme of its own: "*" and "/" at once, a sign when an operator
\* character, a space, the terminator or the end of the stream follows
OnePerCharacter ==
    /\ [][\A ch \in {MULT, DIV} : (ReadsChar(ch) /\ str = <<>>) =>
             str' = <<ch>> /\ pc' = "classify" /\ nputback' = 0]_vars
    /\ [][\A ch \in {PLUS, MINUS} : (ReadsChar(ch) /\ str = <<>>) =>
             str' = <<ch>> /\ pc' = "read"]_vars
    /\ [][(pc = "read" /\ str \in SignTexts
              /\ (ReadsEnd \/ \E ch \in StopChars : ReadsChar(ch))) =>
             str' = str /\ pc' = "classify"]_vars
    /\ [][(pc = "classify" /\ str \in Operators /\ (Good(Cfg) \/ eofbit)) =>
             /\ pc' = "apply" /\ tok' = str /\ IsOperator'
             /\ thrown' = NoException]_vars

\* InvalidExpression for a text that begins with an operator character
LexemeErrorOnOperator ==
    /\ thrown.kind = "InvalidExpression"
    /\ thrown.payload # <<>> /\ thrown.payload[1] \in OpChars

\* the last two lexemes taken up are operators, and the second has failed
FailsInRun ==
    /\ thrown.kind \in {"InvalidInput", "DivByZero"}
    /\ Len(lexemes) >= 2
    /\ lexemes[Len(lexemes)].op /\ lexemes[Len(lexemes) - 1].op

\* C17 as stated: operator characters in a row, no sign among them directly
\* before a digit or a radix point, become one operator lexeme each and
\* never an InvalidExpression; when evaluation fails within such a run it
\* fails with InvalidInput.
C17_OperatorRun ==
    /\ OnePerCharacter
    /\ [](LexemeErrorOnOperator =>
             /\ Len(thrown.payload) >= 2
             /\ thrown.payload[2] \in Digits \cup {RADIX_POINT})
    /\ [](FailsInRun => thrown.kind = "InvalidInput")

\* C17 amended: the sign must not stand directly before a digit, a radix
\* point or an invalid character either, and a failure within the run is
\* one of evaluation, InvalidInput or DivByZero, raised on an operator
\* lexeme that has been taken up.
C17_OperatorRunAmended ==
    /\ OnePerCharacter
    /\ [](LexemeErrorOnOperator =>
             /\ Len(thrown.payload) >= 2
             /\ thrown.payload[1] \in {PLUS, MINUS}
             /\ thrown.payload[2] \in Digits \cup {RADIX_POINT} \cup Others)
    /\ [](thrown.kind \in {"InvalidInput", "DivByZero"} =>
             /\ lexemes # <<>> /\ lexemes[Len(lexemes)].op
             /\ lexemes[Len(lexemes)].text \in Operators)

\* "1 1+*": "+" and "*" are lexemes of their own, and "*" finds one value
C17_Witness ==
    /\ thrown = [kind |-> "InvalidInput", payload |-> <<>>]
    /\ wcin.chars = <<"1", " ", "1", "+", "*">> /\ Len(lexemes) = 4
    /\ lexemes[3] = [text |-> <<"+">>, op |-> TRUE]
    /\ lexemes[4] = [text |-> <<"*">>, op |-> TRUE]

\* ---------------------------------------------------------------- C18
\* the same characters written to wcout, wcerr and cerr
SameOutput(a, b) == a.wcout = b.wcout /\ a.wcerr = b.wcerr /\ a.cerr = b.cerr

\* C18 (specification SpecTail): once the first terminator is read no
\* character is read any more, so nothing is delivered by the stream after
\* it; a run on a stream and a run on a stream that is the same up to and
\* including the first terminator and goes on differently consume the same
\* characters, go through the same stack states and end with the same
\* outcome.  On an input empty up to the terminator both runs come to the
\* print of an empty stack, where the language defines no outcome to
\* compare.
C18_NothingAfterTerminator ==
    /\ [](\A i \in 1..Len(wcin.chars) :
             wcin.chars[i] = EOI => i = Len(wcin.chars) /\ (pos = i => got_eoi))
    /\ [][got_eoi => pos' = pos /\ wcin' = wcin /\ twin'.pos = twin.pos]_vars
    /\ [](twin.flag_verbose = flag_verbose /\ SameEvaluation(Cfg, twin))
    /\ []((SameOutcome(Cfg, twin) /\ SameOutput(Cfg, twin))
            \/ (PastUndefined(Cfg) /\ PastUndefined(twin)))

\* "1 1+;" on the one stream, "1 1+;@1" on the other: both print 2
C18_Witness ==
    /\ wcin.chars = <<"1", " ", "1", "+", ";">> /\ pc = "done" /\ got_eoi
    /\ WithTail(wcin).chars = <<"1", " ", "1", "+", ";", "@", "1">>
    /\ twin.pc = "done" /\ twin.pos = 5 /\ twin.got_eoi
    /\ result = Dbl(2, 1) /\ twin.result = Dbl(2, 1) /\ twin.thrown = NoException

\* ---------------------------------------------------------------- C19
\* the main run has met the end of the stream
MetEnd == wcin.ended /\ eofbit

\* the same lexeme in the making, the same lexemes returned and taken up,
\* the same stack and the same exception
SameLexing(a, b) ==
    /\ a.str = b.str /\ a.raw = b.raw /\ a.got_radixpt = b.got_radixpt
    /\ a.is_valid_num = b.is_valid_num /\ a.nputback = b.nputback
    /\ a.EndOfInput = b.EndOfInput /\ a.IsOperator = b.IsOperator
    /\ a.tok = b.tok /\ a.lexemes = b.lexemes /\ a.mem = b.mem
    /\ a.thrown = b.thrown

\* C19 (specification SpecEnd): a run on characters with no terminator
\* followed by the end of the stream and a run on the same characters
\* followed by a terminator return the same lexemes, go through the same
\* stack states and end with the same result, warning or exception; the
\* second run reads the terminator where the first meets the end.  On the
\* empty sequence both runs come to the print of an empty stack, where the
\* language defines no outcome to compare.
C19_EndLikeTerminator ==
    /\ [](twin.flag_verbose = flag_verbose /\ SameLexing(Cfg, twin))
    /\ []((SameOutcome(Cfg, twin) /\ SameOutput(Cfg, twin))
            \/ (PastUndefined(Cfg) /\ PastUndefined(twin)))
    /\ [](MetEnd => /\ \A i \in 1..Len(wcin.chars) : wcin.chars[i] # EOI
                    /\ ~got_eoi /\ twin.got_eoi /\ ~twin.eofbit
                    /\ twin.c = EOI /\ twin.pos = pos + 1)
    /\ [](~MetEnd => SameEvaluation(Cfg, twin))

\* "1 1+" and then the end of the stream on the one side, "1 1+;" on the
\* other: both print 2
C19_Witness ==
    /\ wcin.chars = <<"1", " ", "1", "+">> /\ MetEnd /\ pc = "done"
    /\ ~got_eoi /\ twin.got_eoi /\ twin.pc = "done" /\ twin.pos = 5
    /\ Len(lexemes) = 3 /\ twin.lexemes = lexemes
    /\ result = Dbl(2, 1) /\ twin.result = Dbl(2, 1) /\ thrown = NoException

\* ---------------------------------------------------------------- C20
\* how many of the lexemes taken up are operators (op TRUE) or numbers
Taken(op) == Cardinality({i \in 1..Len(lexemes) : lexemes[i].op = op})

\* b comes from a by pops at the end, two at most, and at most one push
AtTheEnd(a, b) ==
    \E k \in 0..Len(a) :
        /\ k >= Len(a) - 2 /\ Len(b) \in {k, k + 1}
        /\ SubSeq(b, 1, k) = SubSeq(a, 1, k)

\* C20: in the loop, as long as no exception is raised, the depth of the
\* stack is the number of number lexemes taken up minus the number of
\* operator lexemes taken up; it is at least 1 after an operator has been
\* applied; and every step changes the stack at its end only, the values
\* below staying as they are.
C20_Depth ==
    /\ [](~Raised /\ ~Finished => Len(mem) = Taken(FALSE) - Taken(TRUE))
    /\ [](~Raised /\ ~Finished /\ lexemes # <<>> /\ lexemes[Len(lexemes)].op
             => Len(mem) >= 1)
    /\ [][AtTheEnd(mem, mem')]_vars
    /\ [][Len(mem') > Len(mem) =>
             /\ pc = "apply" /\ ~IsOperator /\ Len(mem') = Len(mem) + 1
             /\ SubSeq(mem', 1, Len(mem)) = mem]_vars

\* "0+1-1-": three numbers and one operator taken up, two values on the stack
C20_Witness ==
    /\ pc = "loop" /\ ~Raised /\ wcin.chars = <<"0", "+", "1", "-", "1", "-">>
    /\ Taken(FALSE) = 3 /\ Taken(TRUE) = 1 /\ Len(mem) = 2

====
